---- MODULE Spec2Model ----
(***************************************************************************)
(* A model of swiftide-integrations/src/pgvector: the PgVector builder,    *)
(* Persist::setup / store / batch_store and Retrieve::retrieve, together   *)
(* with the part of the PostgreSQL database these operations act on.       *)
(*                                                                         *)
(* Text is modelled as a sequence of one-character strings, so that the    *)
(* filter parsing of retrieve (split, trim, trim_matches) is computed the  *)
(* way the code computes it.  The single quote is not in the alphabet: a   *)
(* filter holding one changes the shape of the SQL text itself.            *)
(***************************************************************************)
EXTENDS Integers, Sequences, FiniteSets, TLC

VARIABLES
    builder,      \* the PgVectorBuilder under construction
    pgv_storage,  \* the built PgVector (NoStore before build)
    schema,       \* committed database schema: extension, table, indexes
    rows,         \* committed rows of the store's table
    lastStored,   \* history: id -> content of the last node stored with it
    firstSetup,   \* history: schema right after the first successful setup
    request,      \* the retrieve call the client is about to make, if any
    lastOp        \* the last operation: its inputs and what it returned

vars == <<builder, pgv_storage, schema, rows, lastStored, firstSetup, request, lastOp>>

----------------------------------------------------------------------------
(* Bounds of the model *)

MaxFilterLen == 3    \* longest free-form filter text
MaxBatch == 2        \* most nodes in one batch_store call
MaxFieldCalls == 2   \* most with_vector / with_metadata calls on a builder
MaxIds == 2          \* distinct node identifiers

----------------------------------------------------------------------------
(* Text *)

Chars == {"f", "t", "=", "\"", " "}

SeqsUpTo(S, n) == UNION {[1..k -> S] : k \in 0..n}

RECURSIVE TrimStart(_, _)
TrimStart(s, c) ==
    IF s # <<>> /\ Head(s) = c THEN TrimStart(Tail(s), c) ELSE s

RECURSIVE TrimEnd(_, _)
TrimEnd(s, c) ==
    IF s # <<>> /\ s[Len(s)] = c THEN TrimEnd(SubSeq(s, 1, Len(s) - 1), c) ELSE s

\* str::trim: leading and trailing whitespace removed
trim(s) == TrimEnd(TrimStart(s, " "), " ")

\* str::trim_matches(c): every leading and every trailing c removed
trim_matches(s, c) == TrimEnd(TrimStart(s, c), c)

\* str::split(c): the pieces between the occurrences of c, empty ones kept
RECURSIVE split(_, _)
split(s, c) ==
    IF \A i \in 1..Len(s) : s[i] # c
    THEN <<s>>
    ELSE LET i == CHOOSE j \in 1..Len(s) :
                      s[j] = c /\ \A k \in 1..(j - 1) : s[k] # c
         IN <<SubSeq(s, 1, i - 1)>> \o split(SubSeq(s, i + 1, Len(s)), c)

Count(s, c) == Cardinality({i \in 1..Len(s) : s[i] = c})

IsAlnum(c) == c \in {"f", "t"}

\* PgVector::normalize_field_name: non-alphanumeric characters become "_"
normalize_field_name(s) ==
    [i \in 1..Len(s) |-> IF IsAlnum(s[i]) THEN s[i] ELSE "_"]

----------------------------------------------------------------------------
(* Field model and builder (mod.rs) *)

FieldID == [kind |-> "ID", name |-> <<>>]
FieldChunk == [kind |-> "Chunk", name |-> <<>>]
FieldVector(n) == [kind |-> "Vector", name |-> n]
FieldMetadata(k) == [kind |-> "Metadata", name |-> k]

\* The vector field "t" and the metadata key "f" (the tests' Combined and "filter")
VectorNames == {<<"t">>}
MetaKey == <<"f">>
MetadataKeys == {MetaKey}

\* FieldConfig::field_name: the column a field is stored in
field_name(f) ==
    CASE f.kind = "ID" -> <<"id">>
      [] f.kind = "Chunk" -> <<"chunk">>
      [] f.kind = "Vector" -> <<"vector_">> \o normalize_field_name(f.name)
      [] f.kind = "Metadata" -> <<"meta_">> \o normalize_field_name(f.name)

DEFAULT_BATCH_SIZE == 50

\* Option<T>: NoneOpt, or Some(x)
NoneOpt == <<>>
Some(x) == <<x>>
IsSome(o) == o # <<>>
Unwrap(o) == o[1]

default_fields == <<FieldID, FieldChunk>>

\* PgVectorBuilder::default(): every field unset
DefaultBuilder ==
    [connection_pool |-> NoneOpt, table_name |-> NoneOpt, vector_size |-> NoneOpt,
     batch_size |-> NoneOpt, fields |-> NoneOpt]

\* Option::get_or_insert_with(Self::default_fields)
get_or_insert_with_default_fields(b) ==
    IF IsSome(b.fields) THEN Unwrap(b.fields) ELSE default_fields

with_vector(b, n) ==
    [b EXCEPT !.fields =
        Some(Append(get_or_insert_with_default_fields(b), FieldVector(n)))]

with_metadata(b, k) ==
    [b EXCEPT !.fields =
        Some(Append(get_or_insert_with_default_fields(b), FieldMetadata(k)))]

\* PgVectorBuilder::try_connect_to_pool, on success
try_connect_to_pool(b) == [b EXCEPT !.connection_pool = Some("Connected")]

\* The derived setters
vector_size(b, n) == [b EXCEPT !.vector_size = Some(n)]
table_name(b, t) == [b EXCEPT !.table_name = Some(t)]
fields(b, fs) == [b EXCEPT !.fields = Some(fs)]

\* What the derived build() gives a field the caller left unset: its
\* #[builder(default)] value, and for `fields` that is Vec::default().
BuildFields(b) == IF IsSome(b.fields) THEN Unwrap(b.fields) ELSE <<>>

\* vector_size has no default: build() fails while it is unset
CanBuild(b) == IsSome(b.vector_size)

build(b) ==
    [connection_pool |-> IF IsSome(b.connection_pool)
                         THEN Unwrap(b.connection_pool) ELSE "Uninitialized",
     table_name |-> IF IsSome(b.table_name)
                    THEN Unwrap(b.table_name) ELSE "swiftide_pgv_store",
     vector_size |-> b.vector_size,
     batch_size |-> IF IsSome(b.batch_size)
                    THEN Unwrap(b.batch_size) ELSE Some(DEFAULT_BATCH_SIZE),
     fields |-> BuildFields(b)]

\* No PgVector has been built yet
NoStore ==
    [connection_pool |-> "Unbuilt", table_name |-> "", vector_size |-> NoneOpt,
     batch_size |-> NoneOpt, fields |-> <<>>]

\* PgDBConnectionPool::get_pool: the pool, or an error while none is set
get_pool(st) == [ok |-> st.connection_pool = "Connected"]

VectorFields(st) ==
    SelectSeq(st.fields, LAMBDA f : f.kind = "Vector")

MetadataFields(st) ==
    SelectSeq(st.fields, LAMBDA f : f.kind = "Metadata")

\* PgVector::get_vector_column_name: the column of the configured vector field
get_vector_column_name(st) ==
    IF VectorFields(st) = <<>>
    THEN [ok |-> FALSE, name |-> <<>>]
    ELSE [ok |-> TRUE, name |-> field_name(VectorFields(st)[1])]

ColumnsOf(fs) == {field_name(fs[i]) : i \in 1..Len(fs)}

----------------------------------------------------------------------------
(* The database: schema statements, each run inside a transaction *)

EmptySchema == [extension |-> FALSE, table |-> NoneOpt, indexes |-> {}]

\* A table of the same name left by an earlier deployment: id and chunk only
LegacySchema ==
    [extension |-> TRUE, table |-> Some({<<"id">>, <<"chunk">>}), indexes |-> {}]

\* "CREATE EXTENSION vector", failing on an extension that is there already
CreateExtensionStrict(s) ==
    IF s.extension THEN [ok |-> FALSE, schema |-> s]
    ELSE [ok |-> TRUE, schema |-> [s EXCEPT !.extension = TRUE]]

\* "CREATE EXTENSION IF NOT EXISTS vector"
CreateExtension(s) == [ok |-> TRUE, schema |-> [s EXCEPT !.extension = TRUE]]

\* generate_create_table_sql: CREATE TABLE IF NOT EXISTS, a column per field
generate_create_table_sql(st) == [ok |-> TRUE, columns |-> ColumnsOf(st.fields)]

\* The table statement: a vector column needs the extension's type
CreateTable(s, columns) ==
    IF IsSome(s.table) THEN [ok |-> TRUE, schema |-> s]
    ELSE IF ~s.extension /\ \E c \in columns : c[1] = "vector_"
    THEN [ok |-> FALSE, schema |-> s]
    ELSE [ok |-> TRUE, schema |-> [s EXCEPT !.table = Some(columns)]]

\* create_index_sql: CREATE INDEX IF NOT EXISTS ... USING hnsw, on the vector
\* columns; an error when the store has none
create_index_sql(st) ==
    [ok |-> get_vector_column_name(st).ok,
     columns |-> ColumnsOf(VectorFields(st))]

\* The index statement: every column not yet indexed must be in the table
CreateIndex(s, columns) ==
    LET new == columns \ s.indexes
    IN IF new = {} THEN [ok |-> TRUE, schema |-> s]
       ELSE IF ~IsSome(s.table) \/ ~(new \subseteq Unwrap(s.table))
       THEN [ok |-> FALSE, schema |-> s]
       ELSE [ok |-> TRUE, schema |-> [s EXCEPT !.indexes = @ \cup new]]

SetupFaults == {"none", "begin", "extension", "table", "index", "commit"}

SetupResult(ok, err, s, n) ==
    [ok |-> ok, err |-> err, schema |-> s, stmts |-> n]

\* setup with every statement committed on its own: no transaction
setup_autocommit(st, s, fault) ==
    IF ~get_pool(st).ok THEN SetupResult(FALSE, "PoolError", s, 0)
    ELSE IF fault = "begin" THEN SetupResult(FALSE, "DbError", s, 0)
    ELSE LET e == CreateExtension(s)
             t == generate_create_table_sql(st)
             ct == CreateTable(e.schema, t.columns)
             i == create_index_sql(st)
             ci == CreateIndex(ct.schema, i.columns)
         IN IF fault = "extension" \/ ~e.ok
            THEN SetupResult(FALSE, "DbError", s, 1)
            ELSE IF ~t.ok THEN SetupResult(FALSE, "SqlError", e.schema, 1)
            ELSE IF fault = "table" \/ ~ct.ok
            THEN SetupResult(FALSE, "DbError", e.schema, 2)
            ELSE IF ~i.ok THEN SetupResult(FALSE, "SqlError", ct.schema, 2)
            ELSE IF fault = "index" \/ ~ci.ok
            THEN SetupResult(FALSE, "DbError", ct.schema, 3)
            ELSE IF fault = "commit"
            THEN SetupResult(FALSE, "DbError", ci.schema, 3)
            ELSE SetupResult(TRUE, "", ci.schema, 3)

\* Persist::setup.  tx is dropped, and so rolled back, on every early return;
\* the committed schema changes only at tx.commit().
setup(st, s, fault) ==
    IF ~get_pool(st).ok THEN SetupResult(FALSE, "PoolError", s, 0)
    ELSE IF fault = "begin" THEN SetupResult(FALSE, "DbError", s, 0)
    ELSE LET e == CreateExtension(s)
             t == generate_create_table_sql(st)
             ct == CreateTable(e.schema, t.columns)
             i == create_index_sql(st)
             ci == CreateIndex(ct.schema, i.columns)
         IN IF fault = "extension" \/ ~e.ok
            THEN SetupResult(FALSE, "DbError", s, 1)
            ELSE IF ~t.ok THEN SetupResult(FALSE, "SqlError", s, 1)
            ELSE IF fault = "table" \/ ~ct.ok
            THEN SetupResult(FALSE, "DbError", s, 2)
            ELSE IF ~i.ok THEN SetupResult(FALSE, "SqlError", s, 2)
            ELSE IF fault = "index" \/ ~ci.ok
            THEN SetupResult(FALSE, "DbError", s, 3)
            ELSE IF fault = "commit"
            THEN SetupResult(FALSE, "DbError", s, 3)
            ELSE SetupResult(TRUE, "", ci.schema, 3)

----------------------------------------------------------------------------
(* Nodes and rows; store_nodes, Persist::store and Persist::batch_store *)

Ids == 1..MaxIds
Chunks == {"A", "B"}
Embeddings == {1, 2}
MetaValues == {<<"t">>, <<"f">>}

\* A node: identifier, content, its embedding, its value under metadata key "f"
Nodes ==
    [id : Ids, chunk : Chunks \cup {ToString(i) : i \in Ids}, emb : Embeddings,
     filter : {NoneOpt} \cup {Some(v) : v \in MetaValues}]

\* The row a node is written as: a column the store does not declare is not
\* written, a declared column the node has no value for is null
RowOf(st, n) ==
    [id |-> n.id, chunk |-> n.chunk,
     emb |-> IF VectorFields(st) # <<>> THEN Some(n.emb) ELSE NoneOpt,
     meta |-> IF MetadataFields(st) # <<>> THEN n.filter ELSE NoneOpt]

\* INSERT ... ON CONFLICT (id) DO UPDATE
Upsert(rws, r) == {x \in rws : x.id # r.id} \cup {r}

RECURSIVE UpsertAll(_, _, _)
UpsertAll(st, rws, nodes) ==
    IF nodes = <<>> THEN rws
    ELSE UpsertAll(st, Upsert(rws, RowOf(st, Head(nodes))), Tail(nodes))

\* The table takes the store's rows: it is there, and has the store's columns
TableFits(st, s) ==
    /\ IsSome(s.table)
    /\ <<"id">> \in ColumnsOf(st.fields)
    /\ ColumnsOf(st.fields) = Unwrap(s.table)

StoreFaults == {"none", "write"}

\* PgVector::store_nodes: one transaction upserting every node, in input order
store_nodes(st, s, rws, nodes, fault) ==
    IF ~get_pool(st).ok THEN [ok |-> FALSE, rows |-> rws]
    ELSE IF ~TableFits(st, s) \/ fault = "write" THEN [ok |-> FALSE, rows |-> rws]
    ELSE [ok |-> TRUE, rows |-> UpsertAll(st, rws, nodes)]

\* store that reports the node as stored without writing it
store_unwritten(st, s, rws, node, fault) ==
    LET r == store_nodes(st, s, rws, <<>>, fault)
    IN [ok |-> r.ok, rows |-> r.rows,
        ret |-> IF r.ok THEN Some(node) ELSE NoneOpt]

\* Persist::store
store(st, s, rws, node, fault) ==
    LET nodes == <<node>>
        r == store_nodes(st, s, rws, nodes, fault)
    IN [ok |-> r.ok, rows |-> r.rows,
        ret |-> IF r.ok THEN Some(nodes[1]) ELSE NoneOpt]

\* IndexingStream::from(Result<Vec<Node>>): the nodes, or the one error
IntoStream(ok, nodes) ==
    IF ok THEN [i \in 1..Len(nodes) |-> [ok |-> TRUE, node |-> Some(nodes[i])]]
    ELSE <<[ok |-> FALSE, node |-> NoneOpt]>>

\* batch_store that hands the nodes back whatever store_nodes returned
batch_store_unchecked(st, s, rws, nodes, fault) ==
    LET r == store_nodes(st, s, rws, nodes, fault)
    IN [ok |-> r.ok, rows |-> r.rows, stream |-> IntoStream(TRUE, nodes)]

\* Persist::batch_store
batch_store(st, s, rws, nodes, fault) ==
    LET r == store_nodes(st, s, rws, nodes, fault)
    IN [ok |-> r.ok, rows |-> r.rows, stream |-> IntoStream(r.ok, nodes)]

----------------------------------------------------------------------------
(* Retrieve::retrieve (retrieve.rs) *)

\* top_k is a u64, held as four 16-bit limbs, least significant first
LimbBase == 2^16
U64(l0, l1, l2, l3) == <<l0, l1, l2, l3>>
I32_MAX == U64(LimbBase - 1, (LimbBase \div 2) - 1, 0, 0)
FitsI32(k) == k[3] = 0 /\ k[4] = 0 /\ k[2] < LimbBase \div 2
I32ToU64(v) == U64(v % LimbBase, v \div LimbBase, 0, 0)

\* `top_k as i32`: the low 32 bits, read as a signed number
TopKWrapping(k) ==
    [ok |-> TRUE,
     value |-> IF k[2] < LimbBase \div 2 THEN k[2] * LimbBase + k[1]
               ELSE (k[2] - LimbBase) * LimbBase + k[1]]

\* i32::try_from(search_strategy.top_k())
TopKToI32(k) ==
    IF FitsI32(k) THEN [ok |-> TRUE, value |-> k[2] * LimbBase + k[1]]
    ELSE [ok |-> FALSE, value |-> 0]

\* query_state.embedding.unwrap_or_default()
QueryEmbeddingOrDefault(query) ==
    [ok |-> TRUE,
     value |-> IF IsSome(query.embedding) THEN Unwrap(query.embedding) ELSE 0]

\* query_state.embedding.as_ref().ok_or_else(..)?
QueryEmbedding(query) ==
    IF IsSome(query.embedding)
    THEN [ok |-> TRUE, value |-> Unwrap(query.embedding)]
    ELSE [ok |-> FALSE, value |-> 0]

NoFilter == [ok |-> FALSE, key |-> <<>>, value |-> <<>>]

\* The filter split at its first "=" only: the rest is the value
ParseFilterFirstEq(filter) ==
    LET filter_parts == split(filter, "=")
    IN IF Len(filter_parts) >= 2
       THEN LET i == Len(filter_parts[1]) + 2
            IN [ok |-> TRUE, key |-> trim(filter_parts[1]),
                value |-> trim_matches(trim(SubSeq(filter, i, Len(filter))), "\"")]
       ELSE NoFilter

\* The value taken as written, its quotes kept
ParseFilterQuoted(filter) ==
    LET filter_parts == split(filter, "=")
    IN IF Len(filter_parts) = 2
       THEN [ok |-> TRUE, key |-> trim(filter_parts[1]),
             value |-> trim(filter_parts[2])]
       ELSE NoFilter

\* The filter of retrieve: split at "=", exactly two parts, key and value trimmed
ParseFilter(filter) ==
    LET filter_parts == split(filter, "=")
    IN IF Len(filter_parts) = 2
       THEN [ok |-> TRUE, key |-> trim(filter_parts[1]),
             value |-> trim_matches(trim(filter_parts[2]), "\"")]
       ELSE NoFilter

\* The checks of retrieve with the pool looked up before the embedding
ValidatePoolFirst(st, strategy, query) ==
    IF ~get_pool(st).ok THEN "PoolError"
    ELSE IF ~QueryEmbedding(query).ok THEN "NoEmbedding"
    ELSE IF ~get_vector_column_name(st).ok THEN "NoVectorColumn"
    ELSE IF IsSome(strategy.filter) /\ ~ParseFilter(Unwrap(strategy.filter)).ok
    THEN "InvalidFilter"
    ELSE IF ~TopKToI32(strategy.top_k).ok THEN "TopKError"
    ELSE ""

\* What retrieve checks before it runs its query, in the order it checks it:
\* the first error, or "" when the query is run
Validate(st, strategy, query) ==
    IF ~QueryEmbedding(query).ok THEN "NoEmbedding"
    ELSE IF ~get_pool(st).ok THEN "PoolError"
    ELSE IF ~get_vector_column_name(st).ok THEN "NoVectorColumn"
    ELSE IF IsSome(strategy.filter) /\ ~ParseFilter(Unwrap(strategy.filter)).ok
    THEN "InvalidFilter"
    ELSE IF ~TopKToI32(strategy.top_k).ok THEN "TopKError"
    ELSE ""

Dist(a, b) == IF a > b THEN a - b ELSE b - a

\* ORDER BY <vector column> <=> $1, a null distance last
SortKey(r, emb) == IF IsSome(r.emb) THEN Dist(Unwrap(r.emb), emb) ELSE 1000

\* meta_<column> ->> '<key>': the text under the key, if the row has it
JsonText(r, key) == IF key = MetaKey THEN r.meta ELSE NoneOpt

\* WHERE meta_<normalized key> ->> '<key>' = '<value>'
Matching(rws, where) ==
    IF IsSome(where)
    THEN {r \in rws : JsonText(r, Unwrap(where).key) = Some(Unwrap(where).value)}
    ELSE rws

Min(a, b) == IF a < b THEN a ELSE b

\* The row sequences SELECT ... ORDER BY ... LIMIT n may return: the n nearest
\* rows in ascending distance, rows of equal distance in any order
Nearest(m, emb, n) ==
    LET len == Min(n, Cardinality(m))
    IN {q \in [1..len -> m] :
          /\ \A i, j \in 1..len : i < j =>
                q[i] # q[j] /\ SortKey(q[i], emb) <= SortKey(q[j], emb)
          /\ \A r \in m : (\A i \in 1..len : q[i] # r) =>
                \A i \in 1..len : SortKey(q[i], emb) <= SortKey(r, emb)}

QueryFaults == {"none", "query"}

RetrieveResult(ok, err, docs, limit, n) ==
    [ok |-> ok, err |-> err, docs |-> docs, limit |-> limit, stmts |-> n]

\* The statement fetch_all runs: it fails on a column the table does not have
ExecuteQuery(s, rws, vector_column_name, where, embedding, top_k, fault) ==
    IF \/ fault = "query"
       \/ ~IsSome(s.table)
       \/ ~({<<"id">>, <<"chunk">>, vector_column_name} \subseteq Unwrap(s.table))
       \/ /\ IsSome(where)
          /\ (<<"meta_">> \o normalize_field_name(Unwrap(where).key))
                \notin Unwrap(s.table)
    THEN {RetrieveResult(FALSE, "DbError", <<>>, Some(top_k), 1)}
    ELSE {RetrieveResult(TRUE, "", [i \in 1..Len(q) |-> q[i].chunk], Some(top_k), 1) :
            q \in Nearest(Matching(rws, where), embedding, top_k)}

\* Retrieve<SimilaritySingleEmbedding<String>>::retrieve: every result it may return
retrieve(st, s, rws, strategy, query, fault) ==
    LET err == Validate(st, strategy, query)
    IN IF err # ""
       THEN {RetrieveResult(FALSE, err, <<>>, NoneOpt, 0)}
       ELSE ExecuteQuery(s, rws, get_vector_column_name(st).name,
                IF IsSome(strategy.filter)
                THEN LET f == ParseFilter(Unwrap(strategy.filter))
                     IN Some([key |-> f.key, value |-> f.value])
                ELSE NoneOpt,
                QueryEmbedding(query).value,
                TopKToI32(strategy.top_k).value, fault)

----------------------------------------------------------------------------
(* The builder as a state machine *)

NoRequest == NoneOpt

NewOp == [op |-> "new", ok |-> TRUE, calls |-> <<>>, explicit |-> FALSE]

\* A builder operation: `calls` are the fields with_vector / with_metadata added
\* to this builder so far, `explicit` whether the fields setter was used on it
BuilderOp(op, ok, calls, explicit) ==
    [op |-> op, ok |-> ok, calls |-> calls, explicit |-> explicit]

ExplicitFieldLists ==
    {<<FieldID, FieldChunk>>, <<FieldID, FieldChunk, FieldVector(<<"t">>)>>}

TableNames == {"swiftide_pgvector_test"}

InitBuilder ==
    /\ builder = DefaultBuilder
    /\ pgv_storage = NoStore
    /\ schema = EmptySchema
    /\ rows = {}
    /\ lastStored = [i \in Ids |-> NoneOpt]
    /\ firstSetup = NoneOpt
    /\ request = NoRequest
    /\ lastOp = NewOp

BuilderStep(b, op) ==
    /\ builder' = b
    /\ lastOp' = op
    /\ UNCHANGED <<pgv_storage, schema, rows, lastStored, firstSetup, request>>

SetVectorSize ==
    BuilderStep(vector_size(builder, 384),
                BuilderOp("vector_size", TRUE, lastOp.calls, lastOp.explicit))

SetTableName(t) ==
    BuilderStep(table_name(builder, t),
                BuilderOp("table_name", TRUE, lastOp.calls, lastOp.explicit))

SetFields(fs) ==
    BuilderStep(fields(builder, fs),
                BuilderOp("fields", TRUE, lastOp.calls, TRUE))

WithVector(n) ==
    /\ Len(lastOp.calls) < MaxFieldCalls
    /\ BuilderStep(with_vector(builder, n),
                   BuilderOp("with_vector", TRUE,
                             Append(lastOp.calls, FieldVector(n)), lastOp.explicit))

WithMetadata(k) ==
    /\ Len(lastOp.calls) < MaxFieldCalls
    /\ BuilderStep(with_metadata(builder, k),
                   BuilderOp("with_metadata", TRUE,
                             Append(lastOp.calls, FieldMetadata(k)), lastOp.explicit))

\* try_connect_to_pool takes the builder by value: when the connection fails
\* the builder is gone, and the caller starts from a new one
TryConnectToPool(connects) ==
    IF connects
    THEN BuilderStep(try_connect_to_pool(builder),
                     BuilderOp("try_connect_to_pool", TRUE,
                               lastOp.calls, lastOp.explicit))
    ELSE BuilderStep(DefaultBuilder,
                     BuilderOp("try_connect_to_pool", FALSE, <<>>, FALSE))

Build ==
    /\ builder' = builder
    /\ pgv_storage' = IF CanBuild(builder) THEN build(builder) ELSE pgv_storage
    /\ lastOp' = BuilderOp("build", CanBuild(builder), lastOp.calls, lastOp.explicit)
    /\ UNCHANGED <<schema, rows, lastStored, firstSetup, request>>

NextBuilder ==
    \/ SetVectorSize
    \/ \E t \in TableNames : SetTableName(t)
    \/ \E fs \in ExplicitFieldLists : SetFields(fs)
    \/ \E n \in VectorNames : WithVector(n)
    \/ \E k \in MetadataKeys : WithMetadata(k)
    \/ \E connects \in BOOLEAN : TryConnectToPool(connects)
    \/ Build

SpecBuilder == InitBuilder /\ [][NextBuilder]_vars

----------------------------------------------------------------------------
(* The built store in use *)

\* The builder of the tests: connected, one vector field, metadata "f"
TestBuilder ==
    table_name(
        with_metadata(
            with_vector(vector_size(try_connect_to_pool(DefaultBuilder), 384),
                        <<"t">>),
            MetaKey),
        "swiftide_pgvector_test")

\* The same store, never connected
OfflineBuilder == [TestBuilder EXCEPT !.connection_pool = NoneOpt]

\* A connected store with metadata and no vector field
NoVectorBuilder ==
    with_metadata(vector_size(try_connect_to_pool(DefaultBuilder), 384), MetaKey)

\* A connected store built without naming any field
NoFieldsBuilder == vector_size(try_connect_to_pool(DefaultBuilder), 384)

InitStore(builders, schemas, requests) ==
    /\ builder \in builders
    /\ pgv_storage = build(builder)
    /\ schema \in schemas
    /\ rows = {}
    /\ lastStored = [i \in Ids |-> NoneOpt]
    /\ firstSetup = NoneOpt
    /\ request \in requests
    /\ lastOp = NewOp

Setup(fault) ==
    LET r == setup(pgv_storage, schema, fault)
    IN /\ schema' = r.schema
       /\ firstSetup' = IF r.ok /\ ~IsSome(firstSetup) THEN Some(r.schema)
                        ELSE firstSetup
       /\ lastOp' = [op |-> "setup", fault |-> fault, ok |-> r.ok, err |-> r.err,
                     stmts |-> r.stmts, pre |-> schema,
                     again |-> IsSome(firstSetup)]
       /\ UNCHANGED <<builder, pgv_storage, rows, lastStored, request>>

RECURSIVE Remember(_, _)
Remember(last, nodes) ==
    IF nodes = <<>> THEN last
    ELSE Remember([last EXCEPT ![Head(nodes).id] = Some(Head(nodes).chunk)],
                  Tail(nodes))

Store(node, fault) ==
    LET r == store(pgv_storage, schema, rows, node, fault)
    IN /\ rows' = r.rows
       /\ lastStored' = IF r.ok THEN Remember(lastStored, <<node>>) ELSE lastStored
       /\ lastOp' = [op |-> "store", node |-> node, fault |-> fault, ok |-> r.ok,
                     ret |-> r.ret,
                     over |-> \E x \in rows : x.id = node.id /\ x.chunk # node.chunk]
       /\ UNCHANGED <<builder, pgv_storage, schema, firstSetup, request>>

BatchStore(nodes, fault) ==
    LET r == batch_store(pgv_storage, schema, rows, nodes, fault)
    IN /\ rows' = r.rows
       /\ lastStored' = IF r.ok THEN Remember(lastStored, nodes) ELSE lastStored
       /\ lastOp' = [op |-> "batch_store", nodes |-> nodes, fault |-> fault,
                     ok |-> r.ok, stream |-> r.stream]
       /\ UNCHANGED <<builder, pgv_storage, schema, firstSetup, request>>

\* The client makes the retrieve call it holds
Retrieve ==
    /\ IsSome(request)
    /\ LET q == Unwrap(request)
       IN \E r \in retrieve(pgv_storage, schema, rows, q.strategy, q.query, q.fault) :
            lastOp' = [op |-> "retrieve", strategy |-> q.strategy,
                       query |-> q.query, fault |-> q.fault, ok |-> r.ok,
                       err |-> r.err, docs |-> r.docs, limit |-> r.limit,
                       stmts |-> r.stmts, pre |-> rows]
    /\ request' = NoRequest
    /\ UNCHANGED <<builder, pgv_storage, schema, rows, lastStored, firstSetup>>

\* Persistence: nodes that differ in identifier and content
PersistNodes ==
    {n \in Nodes : n.chunk \in Chunks /\ n.emb = 1 /\ n.filter = Some(<<"t">>)}

\* Batches: the first identifier with either content, so that one batch can
\* hold it twice, the other identifiers with one
Batches ==
    SeqsUpTo({n \in PersistNodes : n.id = 1 \/ n.chunk = "A"}, MaxBatch)

Init ==
    InitStore({TestBuilder, OfflineBuilder, NoVectorBuilder, NoFieldsBuilder},
              {EmptySchema, LegacySchema}, {NoRequest})

Next ==
    \/ \E fault \in SetupFaults : Setup(fault)
    \/ \E node \in PersistNodes, fault \in StoreFaults : Store(node, fault)
    \/ \E nodes \in Batches, fault \in StoreFaults : BatchStore(nodes, fault)

Spec == Init /\ [][Next]_vars

----------------------------------------------------------------------------
(* Properties of setup, store and batch_store, under Spec *)

\* C1: a setup() that follows a successful setup() of the same store, and that
\* the database does not fail, succeeds and leaves extension, table columns and
\* indexes as the first call left them; the schema never moves away from what
\* the first successful setup() made it.
SetupIdempotent ==
    /\ IsSome(firstSetup) => schema = Unwrap(firstSetup)
    /\ (lastOp.op = "setup" /\ lastOp.again /\ lastOp.fault = "none") =>
          /\ lastOp.ok
          /\ schema = lastOp.pre

\* A second setup() has run on the schema the first one created
SetupTwice ==
    /\ lastOp.op = "setup" /\ lastOp.again /\ lastOp.fault = "none" /\ lastOp.ok
    /\ IsSome(schema.table) /\ schema.indexes # {} /\ schema.extension

\* C4: setup() succeeds only when its three statements ran and the commit went
\* through; a setup() that returns an error, whichever step failed, leaves the
\* committed schema exactly as it was before the call.
SetupAtomic ==
    lastOp.op = "setup" =>
        /\ lastOp.ok => lastOp.stmts = 3 /\ lastOp.fault = "none"
        /\ ~lastOp.ok => schema = lastOp.pre

\* setup() failed on an empty database after its first two statements had run
SetupRolledBack ==
    /\ lastOp.op = "setup" /\ ~lastOp.ok /\ lastOp.stmts >= 2
    /\ lastOp.pre = EmptySchema

\* C5: batch_store returns the input nodes, one element each and in input
\* order, when the write succeeded, and a single error and no node when it failed.
BatchStoreStream ==
    lastOp.op = "batch_store" =>
        IF lastOp.ok
        THEN /\ Len(lastOp.stream) = Len(lastOp.nodes)
             /\ \A i \in 1..Len(lastOp.nodes) :
                   /\ lastOp.stream[i].ok
                   /\ lastOp.stream[i].node = Some(lastOp.nodes[i])
        ELSE /\ Len(lastOp.stream) = 1
             /\ ~lastOp.stream[1].ok
             /\ ~IsSome(lastOp.stream[1].node)

\* A batch of two nodes whose write failed in the database
BatchStoreFailed ==
    /\ lastOp.op = "batch_store" /\ ~lastOp.ok /\ lastOp.fault = "write"
    /\ Len(lastOp.nodes) = 2 /\ TableFits(pgv_storage, schema)

\* C6: after any successful store / batch_store calls the table holds at most
\* one row per identifier, and the row of an identifier holds the content of
\* the node last stored with it.
UpsertOnIdentity ==
    \A id \in Ids :
        /\ Cardinality({r \in rows : r.id = id}) <= 1
        /\ IF IsSome(lastStored[id])
           THEN \E r \in rows : r.id = id /\ r.chunk = Unwrap(lastStored[id])
           ELSE \A r \in rows : r.id # id

\* A node was stored over a row of its identifier that held other content
StoredTwice ==
    /\ lastOp.op = "store" /\ lastOp.ok /\ lastOp.over
    /\ \E r \in rows : r.id = lastOp.node.id /\ r.chunk = lastOp.node.chunk

----------------------------------------------------------------------------
(* Retrieval against a populated table: SpecQuery *)

\* A filter the way the callers write it: key = "value"
FormatFilter(key, v) == key \o <<" ", "=", " ", "\"">> \o v \o <<"\"">>

\* Values asked for: the stored ones, one no node has, and some awkward ones
FilterValues ==
    MetaValues \cup {<<"t", "t">>, <<"t", "=">>, <<"\"", "t">>, <<" ", "t">>}

QueryFilters ==
    {NoneOpt} \cup {Some(FormatFilter(MetaKey, v)) : v \in FilterValues}
              \cup {Some(<<"f">>), Some(<<"f", "=", "t", "=", "t">>)}

QueryTopKs ==
    {U64(0, 0, 0, 0), U64(1, 0, 0, 0), U64(2, 0, 0, 0), U64(0, LimbBase \div 2, 0, 0)}

QueryEmbeddings == {NoneOpt, Some(1)}

Requests(filters, topks, embeddings, faults) ==
    {Some([strategy |-> [filter |-> f, top_k |-> k],
           query |-> [embedding |-> e], fault |-> x]) :
        f \in filters, k \in topks, e \in embeddings, x \in faults}

\* Nodes that differ in identifier, embedding and metadata value
QueryNodes == {n \in Nodes : n.chunk = ToString(n.id) /\ IsSome(n.filter)}

InitQuery ==
    InitStore({TestBuilder, OfflineBuilder, NoVectorBuilder}, {EmptySchema},
              Requests(QueryFilters, QueryTopKs, QueryEmbeddings, QueryFaults))

NextQuery ==
    \/ Setup("none")
    \/ \E node \in QueryNodes : Store(node, "none")
    \/ Retrieve

SpecQuery == InitQuery /\ [][NextQuery]_vars

----------------------------------------------------------------------------
(* Retrieval over every short filter text and the edges of top_k: SpecFilter *)

FilterTexts == {NoneOpt} \cup {Some(f) : f \in SeqsUpTo(Chars, MaxFilterLen)}

TopKs ==
    {U64(0, 0, 0, 0), U64(1, 0, 0, 0), I32_MAX, U64(0, LimbBase \div 2, 0, 0),
     U64(1, 0, 1, 0), U64(LimbBase - 1, LimbBase - 1, LimbBase - 1, LimbBase - 1)}

\* Nodes of one identifier, with and without the metadata value
FilterNodes == {n \in Nodes : n.chunk = ToString(n.id) /\ n.id = 1 /\ n.emb = 1}

InitFilter ==
    InitStore({TestBuilder, OfflineBuilder}, {EmptySchema},
              Requests(FilterTexts, TopKs, {NoneOpt, Some(1)}, {"none"}))

NextFilter ==
    \/ Setup("none")
    \/ \E node \in FilterNodes : Store(node, "none")
    \/ Retrieve

SpecFilter == InitFilter /\ [][NextFilter]_vars

----------------------------------------------------------------------------
(* Properties of retrieve *)

\* The store of the tests, connected, its table set up
StoreReady ==
    /\ pgv_storage = build(TestBuilder)
    /\ TableFits(pgv_storage, schema)

\* A retrieve whose query has an embedding, whose top_k fits and which the
\* database did not fail
CleanRetrieve ==
    /\ lastOp.op = "retrieve"
    /\ StoreReady
    /\ IsSome(lastOp.query.embedding)
    /\ lastOp.fault = "none"
    /\ lastOp.strategy.top_k[3] = 0 /\ lastOp.strategy.top_k[4] = 0
    /\ lastOp.strategy.top_k[2] < LimbBase \div 2

TopKValue == lastOp.strategy.top_k[2] * LimbBase + lastOp.strategy.top_k[1]

AllChunks == {n.chunk : n \in Nodes}

Occurrences(docs, c) == Cardinality({i \in 1..Len(docs) : docs[i] = c})

\* docs holds the contents of exactly the rows m, in some order
SameContents(docs, m) ==
    \A c \in AllChunks :
        Occurrences(docs, c) = Cardinality({r \in m : r.chunk = c})

\* docs holds the contents of k of the rows m, or of all when there are fewer
ContentsUpTo(docs, m, k) ==
    /\ Len(docs) = Min(k, Cardinality(m))
    /\ \A c \in AllChunks :
          Occurrences(docs, c) <= Cardinality({r \in m : r.chunk = c})

RowsWith(v) == {r \in rows : r.meta = Some(v)}

PlainValue(v) ==
    /\ Count(v, "=") = 0
    /\ v # <<>> => Head(v) # "\"" /\ v[Len(v)] # "\""

RetrieveNeedsEmbedding ==
    lastOp.op = "retrieve" =>
        /\ ~IsSome(lastOp.query.embedding) =>
              /\ ~lastOp.ok /\ lastOp.err = "NoEmbedding"
              /\ lastOp.docs = <<>> /\ lastOp.stmts = 0
        /\ lastOp.ok =>
              /\ IsSome(lastOp.query.embedding)
              /\ lastOp.stmts = 1 /\ lastOp.fault = "none"

\* A query without embedding was refused by a store that had rows to return
RetrieveWithoutEmbedding ==
    /\ lastOp.op = "retrieve" /\ ~IsSome(lastOp.query.embedding) /\ ~lastOp.ok
    /\ StoreReady /\ rows # {}
    /\ lastOp.strategy.filter = NoneOpt /\ lastOp.fault = "none"

Malformed(filter) == IsSome(filter) /\ Count(Unwrap(filter), "=") # 1

TooLarge(top_k) ==
    top_k[4] > 0 \/ top_k[3] > 0 \/ top_k[2] >= LimbBase \div 2

\* C10: retrieve leaves the rows alone, and when it fails on a missing embedding,
\* a malformed filter or a top_k out of range it has run no statement; a missing
\* embedding is reported whatever the pool, a missing pool before the filter and
\* top_k, a malformed filter before top_k.
RetrieveValidatesFirst ==
    lastOp.op = "retrieve" =>
        /\ rows = lastOp.pre
        /\ lastOp.err \in {"NoEmbedding", "PoolError", "InvalidFilter", "TopKError"}
              => lastOp.stmts = 0
        /\ ~IsSome(lastOp.query.embedding) => lastOp.err = "NoEmbedding"
        /\ (IsSome(lastOp.query.embedding)
              /\ pgv_storage.connection_pool # "Connected")
              => lastOp.err = "PoolError"
        /\ (IsSome(lastOp.query.embedding)
              /\ pgv_storage.connection_pool = "Connected"
              /\ VectorFields(pgv_storage) # <<>>) =>
              /\ Malformed(lastOp.strategy.filter) => lastOp.err = "InvalidFilter"
              /\ (~Malformed(lastOp.strategy.filter)
                    /\ TooLarge(lastOp.strategy.top_k)) => lastOp.err = "TopKError"

\* A malformed filter, sent to a store that was never connected
MalformedOnMissingPool ==
    /\ lastOp.op = "retrieve" /\ IsSome(lastOp.query.embedding)
    /\ Malformed(lastOp.strategy.filter)
    /\ pgv_storage.connection_pool = "Uninitialized"
    /\ lastOp.err = "PoolError"

\* C3: a filter with no "=" or more than one makes retrieve fail and return no
\* document, with "Invalid filter format" once embedding, pool and vector column
\* are there; retrieve succeeds with a filter only if it holds exactly one "=".
MalformedFilterRejected ==
    (lastOp.op = "retrieve" /\ IsSome(lastOp.strategy.filter)) =>
        /\ Malformed(lastOp.strategy.filter) =>
              /\ ~lastOp.ok /\ lastOp.docs = <<>>
              /\ (IsSome(lastOp.query.embedding) /\ StoreReady) =>
                    lastOp.err = "InvalidFilter" /\ lastOp.stmts = 0
        /\ lastOp.ok => Count(Unwrap(lastOp.strategy.filter), "=") = 1
        /\ lastOp.err = "InvalidFilter" => Malformed(lastOp.strategy.filter)

\* A filter with two "=" was refused by a store that had a row to return
TwoEqualsRejected ==
    /\ lastOp.op = "retrieve" /\ IsSome(lastOp.strategy.filter)
    /\ Count(Unwrap(lastOp.strategy.filter), "=") = 2
    /\ lastOp.err = "InvalidFilter"
    /\ StoreReady /\ rows # {}

\* C8: retrieve fails for every top_k above 2^31 - 1, with the conversion error
\* once the earlier checks pass, and the LIMIT it binds is top_k itself.
TopKFitsI32 ==
    lastOp.op = "retrieve" =>
        /\ TooLarge(lastOp.strategy.top_k) =>
              /\ ~lastOp.ok /\ ~IsSome(lastOp.limit)
              /\ (IsSome(lastOp.query.embedding) /\ StoreReady
                    /\ ~Malformed(lastOp.strategy.filter))
                    => lastOp.err = "TopKError"
        /\ IsSome(lastOp.limit) =>
              /\ Unwrap(lastOp.limit) >= 0
              /\ I32ToU64(Unwrap(lastOp.limit)) = lastOp.strategy.top_k
        /\ lastOp.ok => IsSome(lastOp.limit)

\* top_k = 2^31, one above the largest i32, was refused
TopKJustTooLarge ==
    /\ lastOp.op = "retrieve"
    /\ lastOp.strategy.top_k = U64(0, LimbBase \div 2, 0, 0)
    /\ lastOp.err = "TopKError"
    /\ StoreReady

----------------------------------------------------------------------------
(* Properties of the builder, under SpecBuilder *)

\* C9 as stated: a store built from a builder on which no field was specified
\* has the fields [ID, Chunk]; and on a builder without explicit field list the
\* fields are ID, Chunk and then the fields added, in call order.
DefaultFieldList ==
    /\ (lastOp.op = "build" /\ lastOp.ok /\ ~lastOp.explicit /\ lastOp.calls = <<>>)
          => pgv_storage.fields = <<FieldID, FieldChunk>>
    /\ (~lastOp.explicit /\ lastOp.calls # <<>>)
          => builder.fields = Some(<<FieldID, FieldChunk>> \o lastOp.calls)

====
